---- MODULE Spec2Model ----
(***************************************************************************)
(* The node pool shifter's control loop (main.go, the goroutine of main)   *)
(* and shiftNode, with the Kubernetes listing calls of K8s (GetNodeList,   *)
(* GetZones, determineZones) and the helpers FindMinAndMax and Sum.        *)
(*                                                                         *)
(* The cluster and the cloud are outside the program: every listing call   *)
(* reads the pool's content as it is at the moment of the call (any        *)
(* content within the bounds, so nodes may join or leave between two       *)
(* calls), and every listing or resize call may return an error. One       *)
(* GetZones call reads one content: the model does not change the cluster  *)
(* between the listings made inside a single call.                         *)
(***************************************************************************)
EXTENDS Integers, Sequences, FiniteSets

\* ---- bounds of the model ----
\* most nodes of one pool that carry the same zone label (or lack it)
MaxNodes == 2
\* loop iterations explored
MaxCycles == 2
\* largest configured --node-pool-from-min-node explored (smallest is -1)
MaxMinNode == 1
\* largest base value given to ApplyJitter (smallest is 1)
MaxBase == 20
\* longest sequence given to FindMinAndMax
MaxSeqLen == 3
\* the elements of those sequences are in -MaxElem..MaxElem
MaxElem == 2

VARIABLES
  pc,                   \* position of the loop goroutine
  cycle,                \* loop iterations started
  nodePoolFromMinNode,  \* flag --node-pool-from-min-node
  nodeTotals,           \* the prometheus counter vector, by status label
  nodesFromLen,         \* len(nodesFrom.Items), -1 before the fetch and once
                        \* main.go:191 has shadowed nodesFrom
  zoneInfoLen,          \* len(zoneInfo), -1 before the fetch and once main.go:191
                        \* is passed (its last use is the division at main.go:167)
  status,               \* local "status"
  sleepBase,            \* which flag sleepTime was last derived from
  waitGroup,            \* counter of the graceful-shutdown wait group
  maxTo,                \* local maxTo
  maxFrom,              \* local maxFrom
  calls,                \* SetNodePoolSize calls issued in this iteration
  verify,               \* what shiftNode's verification computed in this iteration
  panic,                \* runtime panic that ended the process, "none" while running
  decision,             \* history: value of the condition at main.go:177
  outcome,              \* history: label this iteration incremented
  refetchErr,           \* history: pools whose re-fetch (main.go:187,191) returned an error
  fromCoupled,          \* history: the re-fetched source distribution agrees with the
                        \* count and the divisor the decision used
  fetchErr,             \* history: the fetch of main.go:136 or main.go:151 that
                        \* returned an error in this iteration, "none" otherwise
  mainPc,               \* position of the main goroutine in HandleGracefulShutdown
  cluster,              \* <<c>> when the specification fixes the content c of the two
                        \* pools (SpecConverge); <<>> when a listing may see any content
  refetchedMax,         \* history: the largest per-zone count of the distributions
                        \* re-fetched at main.go:187 and main.go:191, -1 before
  call                  \* the call of a helper function that the specifications
                        \* SpecJitter, SpecZones and SpecMinMax apply to its inputs

vars == <<pc, cycle, nodePoolFromMinNode, nodeTotals, nodesFromLen, zoneInfoLen,
          status, sleepBase, waitGroup, maxTo, maxFrom, calls, verify, panic,
          decision, outcome, refetchErr, fromCoupled, fetchErr, mainPc, cluster, call,
          refetchedMax>>

\* ---- the cluster as the listing calls see it ----

Labels == {"shifted", "skipped", "failed"}

\* zone labels of a node; NoZone stands for a node that lacks the label
NoZone == "none"
ZoneLabels == {"a", "b", NoZone}

\* content of one pool: how many of its nodes carry each zone label
PoolContents == [ZoneLabels -> 0..MaxNodes]

RECURSIVE Sum(_)
Sum(array) ==
  IF Len(array) = 0 THEN 0 ELSE Sum(SubSeq(array, 1, Len(array) - 1)) + array[Len(array)]

RECURSIVE FindMinAndMaxFrom(_, _, _, _)
FindMinAndMaxFrom(a, i, min, max) ==
  IF i > Len(a) THEN <<min, max>>
  ELSE FindMinAndMaxFrom(a, i + 1,
                         IF a[i] < min THEN a[i] ELSE min,
                         IF a[i] > max THEN a[i] ELSE max)

FindMinAndMax_FromZero(a) == FindMinAndMaxFrom(a, 1, 0, 0)

\* defined for a non-empty a only: a[0] panics otherwise (the callers guard it)
FindMinAndMax(a) == FindMinAndMaxFrom(a, 1, a[1], a[1])

\* what a listing of the pool's nodes can see at the moment of the call
Observed(pool) == IF cluster = <<>> THEN PoolContents ELSE {cluster[1][pool]}

\* the largest element of a non-empty sequence (what main.go:186,190 say the
\* re-fetch computes), stated without the loop of FindMinAndMax
MaxOf(a) ==
  CHOOSE m \in {a[i] : i \in 1..Len(a)} : \A i \in 1..Len(a) : a[i] <= m

\* GetNodeList(name): every node of the pool, labelled or not, or an error
GetNodeListResults(p) ==
  { [len |-> p["a"] + p["b"] + p[NoZone], err |-> FALSE],
    [len |-> 0, err |-> TRUE] }

\* determineZones: the distinct values of the zone label among the pool's nodes
\* (a node lacking the label contributes the empty string)
determineZones(p) == {z \in ZoneLabels : p[z] > 0}

\* mapKeysToArray: the keys in map iteration order, which Go leaves unspecified
mapKeysToArray(S) ==
  {o \in [1..Cardinality(S) -> S] : \A i, j \in 1..Cardinality(S) : i # j => o[i] # o[j]}

\* the second listing of GetZones for one zone: the selector zone="" matches
\* only nodes that carry the label, so the nodes lacking it are not counted
ZoneListLen(p, z) == IF z = NoZone THEN 0 ELSE p[z]

\* GetZones(name): nil and an error when determineZones fails; the counts
\* collected so far and an error when the listing of a zone fails; else all counts
GetZonesResults(p) ==
  { [zones |-> <<>>, err |-> TRUE] } \cup
  { [zones |-> [i \in 1..k |-> ZoneListLen(p, o[i])], err |-> k < Len(o)] :
      o \in mapKeysToArray(determineZones(p)), k \in 0..Cardinality(determineZones(p)) }

\* ---- the decisions of the loop and of shiftNode ----

Decision_IgnoresFloor(size, minNode, len) == len > 0

Decision_NotStrict(size, minNode, len) == size >= minNode /\ len > 0

\* main.go:177
Decision(size, minNode, len) == size > minNode /\ len > 0

VerificationFailed_Inverted(expectedNodeCount, actualNodeCount) ==
  expectedNodeCount > actualNodeCount

\* main.go:241
VerificationFailed(expectedNodeCount, actualNodeCount) ==
  expectedNodeCount < actualNodeCount

StatusAfterShift_AlwaysShifted(err) == "shifted"

\* main.go:182,194-196
StatusAfterShift(err) == IF err THEN "failed" ELSE "shifted"

ToNewSize_TwoMore(toCurrentSize) == toCurrentSize + 2

\* main.go:216
ToNewSize(toCurrentSize) == toCurrentSize + 1

FromNewSize_TwoLess(fromCurrentSize) == fromCurrentSize - 2

\* main.go:249
FromNewSize(fromCurrentSize) == fromCurrentSize - 1

FetchErrorStatus_Skipped == "skipped"

\* main.go:144,161: the label counted when a fetch of the Idle state fails
FetchErrorStatus == "failed"

SleepBaseAfterShift_Interval == "interval"

\* main.go:200: sleepTime = ApplyJitter(*cycleTime) once shiftNode has returned
SleepBaseAfterShift == "cycleTime"

IncCounter_Lost(totals, label) == totals

\* nodeTotals.With(prometheus.Labels{"status": label}).Inc()
IncCounter(totals, label) == [totals EXCEPT ![label] = @ + 1]

\* the loop goroutine before its first iteration, the main goroutine blocked
\* on the signal channel
InitLocals ==
  /\ pc = "idle"
  /\ cycle = 0
  /\ nodeTotals = [l \in Labels |-> 0]
  /\ nodesFromLen = -1
  /\ zoneInfoLen = -1
  /\ status = ""
  /\ sleepBase = ""
  /\ waitGroup = 0
  /\ maxTo = 0
  /\ maxFrom = 0
  /\ calls = <<>>
  /\ verify = <<>>
  /\ panic = "none"
  /\ decision = "none"
  /\ outcome = "none"
  /\ refetchErr = {}
  /\ fromCoupled = FALSE
  /\ fetchErr = "none"
  /\ refetchedMax = [to |-> -1, from |-> -1]
  /\ mainPc = "waitSignal"

Init ==
  /\ InitLocals
  /\ nodePoolFromMinNode \in (-1)..MaxMinNode
  /\ cluster = <<>>
  /\ call = [op |-> "none"]

\* the iteration increments the counter with this label and reaches its sleep
EndCycle(label) ==
  /\ nodeTotals' = IncCounter(nodeTotals, label)
  /\ outcome' = label
  /\ pc' = "sleep"

\* a runtime panic in the goroutine ends the process
Crash(what) ==
  /\ pc' = "crashed"
  /\ panic' = what

\* main.go:130-149: top of the loop, sleepTime from interval, GetNodeList(from)
CheckNodePool ==
  /\ pc = "idle"
  /\ cycle < MaxCycles
  /\ cycle' = cycle + 1
  /\ sleepBase' = "interval"
  /\ \E p \in Observed("from") : \E r \in GetNodeListResults(p) :
       IF r.err
       THEN /\ EndCycle(FetchErrorStatus)
            /\ fetchErr' = "nodeList"
            /\ UNCHANGED nodesFromLen
       ELSE /\ nodesFromLen' = r.len
            /\ pc' = "getZones"
            /\ UNCHANGED <<nodeTotals, outcome, fetchErr>>
  /\ UNCHANGED <<nodePoolFromMinNode, zoneInfoLen, status, waitGroup, maxTo, maxFrom,
                 calls, verify, panic, decision, refetchErr, fromCoupled,
                 mainPc, cluster, call,
                 refetchedMax>>

\* main.go:151-184 (and 204-206 when the decision is false): GetZones(to),
\* the per-zone size of the source pool, the decision
Decide ==
  /\ pc = "getZones"
  /\ \E p \in Observed("to") : \E r \in GetZonesResults(p) :
       IF r.err
       THEN /\ EndCycle(FetchErrorStatus)
            /\ fetchErr' = "zones"
            /\ UNCHANGED <<zoneInfoLen, status, waitGroup, panic, decision>>
       ELSE /\ zoneInfoLen' = Len(r.zones)
            /\ UNCHANGED fetchErr
            /\ IF Len(r.zones) = 0
               THEN /\ Crash("integer divide by zero")
                    /\ UNCHANGED <<nodeTotals, outcome, status, waitGroup, decision>>
               ELSE LET nodePoolFromSize == nodesFromLen \div Len(r.zones) IN
                    IF Decision(nodePoolFromSize, nodePoolFromMinNode, nodesFromLen)
                    THEN /\ status' = "shifted"
                         /\ waitGroup' = waitGroup + 1
                         /\ decision' = "true"
                         /\ pc' = "refetchTo"
                         /\ UNCHANGED <<nodeTotals, outcome, panic>>
                    ELSE /\ status' = "skipped"
                         /\ decision' = "false"
                         /\ EndCycle("skipped")
                         /\ UNCHANGED <<waitGroup, panic>>
  /\ UNCHANGED <<cycle, nodePoolFromMinNode, nodesFromLen, sleepBase, maxTo, maxFrom,
                 calls, verify, refetchErr, fromCoupled, mainPc, cluster, call,
                 refetchedMax>>

\* main.go:187-188: nodesTo, _ := GetZones(to); _, maxTo := FindMinAndMax(nodesTo)
RefetchTo ==
  /\ pc = "refetchTo"
  /\ \E p \in Observed("to") : \E r \in GetZonesResults(p) :
       /\ refetchErr' = IF r.err THEN refetchErr \cup {"to"} ELSE refetchErr
       /\ IF Len(r.zones) = 0
          THEN /\ Crash("index out of range")
               /\ UNCHANGED <<maxTo, refetchedMax>>
          ELSE /\ maxTo' = FindMinAndMax(r.zones)[2]
               /\ refetchedMax' = [refetchedMax EXCEPT !["to"] = MaxOf(r.zones)]
               /\ pc' = "refetchFrom"
               /\ UNCHANGED panic
  /\ UNCHANGED <<cycle, nodePoolFromMinNode, nodeTotals, nodesFromLen, zoneInfoLen,
                 status, sleepBase, waitGroup, maxFrom, calls, verify, decision,
                 outcome, fromCoupled, fetchErr, mainPc, cluster, call>>

\* main.go:191-192: nodesFrom, _ := GetZones(from); _, maxFrom := FindMinAndMax(nodesFrom)
RefetchFrom ==
  /\ pc = "refetchFrom"
  /\ \E p \in Observed("from") : \E r \in GetZonesResults(p) :
       /\ refetchErr' = IF r.err THEN refetchErr \cup {"from"} ELSE refetchErr
       /\ IF Len(r.zones) = 0
          THEN /\ Crash("index out of range")
               /\ UNCHANGED <<maxFrom, fromCoupled, refetchedMax>>
          ELSE /\ maxFrom' = FindMinAndMax(r.zones)[2]
               /\ refetchedMax' = [refetchedMax EXCEPT !["from"] = MaxOf(r.zones)]
               /\ fromCoupled' = (Len(r.zones) = zoneInfoLen /\ Sum(r.zones) = nodesFromLen)
               /\ pc' = "grow"
               /\ UNCHANGED panic
  /\ nodesFromLen' = -1
  /\ zoneInfoLen' = -1
  /\ UNCHANGED <<cycle, nodePoolFromMinNode, nodeTotals, status, sleepBase, waitGroup,
                 maxTo, calls, verify, decision, outcome, fetchErr, mainPc, cluster, call>>

\* main.go:194-206: shiftNode has returned err; status, sleepTime from cycleTime,
\* waitGroup.Done, the counter
ShiftReturns(err) ==
  /\ status' = StatusAfterShift(err)
  /\ sleepBase' = SleepBaseAfterShift
  /\ waitGroup' = waitGroup - 1
  /\ EndCycle(StatusAfterShift(err))

\* main.go:216-230: toNewSize, SetNodePoolSize(to, toNewSize)
Grow ==
  /\ pc = "grow"
  /\ \E err \in BOOLEAN :
       /\ calls' = Append(calls, [pool |-> "to", size |-> ToNewSize(maxTo), err |-> err])
       /\ IF err
          THEN ShiftReturns(TRUE)
          ELSE /\ pc' = "verify"
               /\ UNCHANGED <<status, sleepBase, waitGroup, nodeTotals, outcome>>
  /\ UNCHANGED <<cycle, nodePoolFromMinNode, nodesFromLen, zoneInfoLen, maxTo, maxFrom,
                 verify, panic, decision, refetchErr, fromCoupled, fetchErr,
                 mainPc, cluster, call,
                 refetchedMax>>

\* main.go:232-246: zoneInfo, err := GetZones(to); the verification; the bare
\* return hands back the err of GetZones
Verify ==
  /\ pc = "verify"
  /\ \E p \in Observed("to") : \E r \in GetZonesResults(p) :
       LET actualNodeCount == Sum(r.zones)
           amountOfZones == Len(r.zones)
           expectedNodeCount == ToNewSize(maxTo) * amountOfZones
       IN /\ verify' = <<[expected |-> expectedNodeCount, actual |-> actualNodeCount,
                          err |-> r.err]>>
          /\ IF VerificationFailed(expectedNodeCount, actualNodeCount)
             THEN ShiftReturns(r.err)
             ELSE /\ pc' = "shrink"
                  /\ UNCHANGED <<status, sleepBase, waitGroup, nodeTotals, outcome>>
  /\ UNCHANGED <<cycle, nodePoolFromMinNode, nodesFromLen, zoneInfoLen, maxTo, maxFrom,
                 calls, panic, decision, refetchErr, fromCoupled, fetchErr,
                 mainPc, cluster, call,
                 refetchedMax>>

Shrink_Rollback ==
  /\ pc = "shrink"
  /\ \E err \in BOOLEAN :
       /\ calls' = IF err
                   THEN calls \o << [pool |-> "from", size |-> FromNewSize(maxFrom), err |-> err],
                                    [pool |-> "to", size |-> maxTo, err |-> FALSE] >>
                   ELSE Append(calls, [pool |-> "from", size |-> FromNewSize(maxFrom), err |-> err])
       /\ ShiftReturns(err)
  /\ UNCHANGED <<cycle, nodePoolFromMinNode, nodesFromLen, zoneInfoLen, maxTo, maxFrom,
                 verify, panic, decision, refetchErr, fromCoupled, fetchErr,
                 mainPc, cluster, call,
                 refetchedMax>>

\* main.go:249-264: fromNewSize, SetNodePoolSize(from, fromNewSize); err is overwritten
Shrink ==
  /\ pc = "shrink"
  /\ \E err \in BOOLEAN :
       /\ calls' = Append(calls, [pool |-> "from", size |-> FromNewSize(maxFrom), err |-> err])
       /\ ShiftReturns(err)
  /\ UNCHANGED <<cycle, nodePoolFromMinNode, nodesFromLen, zoneInfoLen, maxTo, maxFrom,
                 verify, panic, decision, refetchErr, fromCoupled, fetchErr,
                 mainPc, cluster, call,
                 refetchedMax>>

\* main.go:147,163,206: time.Sleep(sleepTime), then the next iteration with
\* fresh locals
Sleep ==
  /\ pc = "sleep"
  /\ pc' = "idle"
  /\ nodesFromLen' = -1
  /\ zoneInfoLen' = -1
  /\ status' = ""
  /\ sleepBase' = ""
  /\ maxTo' = 0
  /\ maxFrom' = 0
  /\ calls' = <<>>
  /\ verify' = <<>>
  /\ decision' = "none"
  /\ outcome' = "none"
  /\ refetchErr' = {}
  /\ fromCoupled' = FALSE
  /\ fetchErr' = "none"
  /\ refetchedMax' = [to |-> -1, from |-> -1]
  /\ UNCHANGED <<cycle, nodePoolFromMinNode, nodeTotals, waitGroup, panic,
                 mainPc, cluster, call>>

Next ==
  \/ CheckNodePool
  \/ Decide
  \/ RefetchTo
  \/ RefetchFrom
  \/ Grow
  \/ Verify
  \/ Shrink
  \/ Sleep

Spec == Init /\ [][Next]_vars

\* ---- the main goroutine: graceful shutdown (main.go:126,210) ----
\* HandleGracefulShutdown blocks on the signal channel, then on waitGroup.Wait,
\* then returns to main, whose return ends the process and the loop goroutine
\* with it.

\* the loop goroutine takes a step; it runs only while the process does
LoopStep ==
  /\ mainPc # "exited"
  /\ Next

\* the shutdown signal is delivered to the channel main blocks on
ShutdownSignal ==
  /\ mainPc = "waitSignal"
  /\ pc # "crashed"
  /\ mainPc' = "wgWait"
  /\ UNCHANGED <<pc, cycle, nodePoolFromMinNode, nodeTotals, nodesFromLen, zoneInfoLen,
                 status, sleepBase, waitGroup, maxTo, maxFrom, calls, verify, panic,
                 decision, outcome, refetchErr, fromCoupled, fetchErr, cluster, call,
                 refetchedMax>>

\* waitGroup.Wait returns once it sees the counter at zero
WaitReturns ==
  /\ mainPc = "wgWait"
  /\ pc # "crashed"
  /\ waitGroup = 0
  /\ mainPc' = "returning"
  /\ UNCHANGED <<pc, cycle, nodePoolFromMinNode, nodeTotals, nodesFromLen, zoneInfoLen,
                 status, sleepBase, waitGroup, maxTo, maxFrom, calls, verify, panic,
                 decision, outcome, refetchErr, fromCoupled, fetchErr, cluster, call,
                 refetchedMax>>

\* HandleGracefulShutdown and main return: the process exits
Exit ==
  /\ mainPc = "returning"
  /\ pc # "crashed"
  /\ mainPc' = "exited"
  /\ UNCHANGED <<pc, cycle, nodePoolFromMinNode, nodeTotals, nodesFromLen, zoneInfoLen,
                 status, sleepBase, waitGroup, maxTo, maxFrom, calls, verify, panic,
                 decision, outcome, refetchErr, fromCoupled, fetchErr, cluster, call,
                 refetchedMax>>

NextShutdown ==
  \/ LoopStep
  \/ ShutdownSignal
  \/ WaitReturns
  \/ Exit

\* the loop goroutine interleaved with the main goroutine
SpecShutdown == Init /\ [][NextShutdown]_vars

\* ---- the helper functions applied to their inputs ----

\* the variables of the loop and of the main goroutine
loopVars == <<pc, cycle, nodePoolFromMinNode, nodeTotals, nodesFromLen, zoneInfoLen,
              status, sleepBase, waitGroup, maxTo, maxFrom, calls, verify, panic,
              decision, outcome, refetchErr, fromCoupled, fetchErr, mainPc, cluster,
              refetchedMax>>

\* main.go:279: deviation := int(0.25 * float64(input)), truncated toward zero
Deviation(input) ==
  IF input >= 0 THEN input \div 4 ELSE 0 - ((0 - input) \div 4)

\* rand.Intn(n): panics when n <= 0, else any of 0..n-1
IntnPanics(n) == n <= 0

\* main.go:278-281 ApplyJitter: every outcome of one call
ApplyJitterResults(input) ==
  LET deviation == Deviation(input) IN
  IF IntnPanics(2 * deviation)
  THEN { [panicked |-> TRUE, output |-> 0] }
  ELSE { [panicked |-> FALSE, output |-> input - deviation + k] :
           k \in 0..(2 * deviation - 1) }

InitJitter ==
  /\ InitLocals
  /\ nodePoolFromMinNode = 0
  /\ cluster = <<>>
  /\ \E v \in 1..MaxBase :
       call = [op |-> "ApplyJitter", input |-> v, done |-> FALSE,
               panicked |-> FALSE, output |-> 0]

\* one call of ApplyJitter(input)
JitterCall ==
  /\ call.op = "ApplyJitter"
  /\ ~call.done
  /\ \E r \in ApplyJitterResults(call.input) :
       call' = [call EXCEPT !.done = TRUE, !.panicked = r.panicked, !.output = r.output]
  /\ UNCHANGED loopVars

NextJitter ==
  \/ JitterCall

SpecJitter == InitJitter /\ [][NextJitter]_vars

InitZones ==
  /\ InitLocals
  /\ nodePoolFromMinNode = 0
  /\ cluster = <<>>
  /\ \E p \in PoolContents :
       call = [op |-> "GetZones", pool |-> p, done |-> FALSE,
               zones |-> <<>>, err |-> FALSE, listLen |-> 0]

\* one call of GetZones(name) and one listing of the same pool without a zone
\* filter (GetNodeList(name)), both on the same, unchanged, content
ZonesCall ==
  /\ call.op = "GetZones"
  /\ ~call.done
  /\ \E r \in GetZonesResults(call.pool) :
     \E l \in {x \in GetNodeListResults(call.pool) : ~x.err} :
       call' = [call EXCEPT !.done = TRUE, !.zones = r.zones, !.err = r.err,
                            !.listLen = l.len]
  /\ UNCHANGED loopVars

NextZones ==
  \/ ZonesCall

SpecZones == InitZones /\ [][NextZones]_vars

InitMinMax ==
  /\ InitLocals
  /\ nodePoolFromMinNode = 0
  /\ cluster = <<>>
  /\ \E n \in 1..MaxSeqLen : \E a \in [1..n -> (0 - MaxElem)..MaxElem] :
       call = [op |-> "FindMinAndMax", a |-> a, done |-> FALSE, min |-> 0, max |-> 0]

\* one call of FindMinAndMax(a) on a non-empty a
MinMaxCall ==
  /\ call.op = "FindMinAndMax"
  /\ ~call.done
  /\ call' = [call EXCEPT !.done = TRUE,
                          !.min = FindMinAndMax(call.a)[1],
                          !.max = FindMinAndMax(call.a)[2]]
  /\ UNCHANGED loopVars

NextMinMax ==
  \/ MinMaxCall

SpecMinMax == InitMinMax /\ [][NextMinMax]_vars

\* ---- the loop against a cluster that keeps its content ----
\* The two pools span the same non-empty set of zones, every node carries the
\* zone label, every listing and every resize call succeeds, and the platform
\* brings every zone of a pool to the requested size before the loop's next
\* iteration.

Zones == {"a", "b"}

\* a pool of the cluster: at least one node in each zone of Z, none elsewhere
PoolOver(Z) ==
  {p \in PoolContents : \A z \in ZoneLabels : IF z \in Z THEN p[z] >= 1 ELSE p[z] = 0}

InitConverge ==
  /\ InitLocals
  /\ nodePoolFromMinNode \in 0..MaxNodes
  /\ \E Z \in (SUBSET Zones) \ {{}} : \E f \in PoolOver(Z) : \E t \in PoolOver(Z) :
       cluster = << [zones |-> Z, from |-> f, to |-> t] >>
  /\ call = [op |-> "none"]

\* SetNodePoolSize(pool, size) once the platform has carried it out: every
\* zone of the pool holds size nodes
ApplyResize(c, pool, size) ==
  [c EXCEPT ![pool] = [z \in ZoneLabels |-> IF z \in c.zones THEN size ELSE 0]]

\* the successful resize calls of this iteration the platform has not carried out yet
PendingResize ==
  {i \in 1..Len(calls) :
     ~calls[i].err /\ cluster[1] # ApplyResize(cluster[1], calls[i].pool, calls[i].size)}

\* the platform carries out the oldest pending resize
CloudApplies ==
  /\ PendingResize # {}
  /\ LET i == CHOOSE j \in PendingResize : \A k \in PendingResize : j <= k
     IN cluster' = << ApplyResize(cluster[1], calls[i].pool, calls[i].size) >>
  /\ UNCHANGED <<pc, cycle, nodePoolFromMinNode, nodeTotals, nodesFromLen, zoneInfoLen,
                 status, sleepBase, waitGroup, maxTo, maxFrom, calls, verify, panic,
                 decision, outcome, refetchErr, fromCoupled, fetchErr, mainPc, call,
                 refetchedMax>>

\* no listing and no resize call of the step returned an error
NoError ==
  /\ fetchErr = "none"
  /\ refetchErr = {}
  /\ \A i \in 1..Len(calls) : ~calls[i].err
  /\ \A i \in 1..Len(verify) : ~verify[i].err

\* a step of the loop; the sleep outlasts the platform's work
LoopStepConverge ==
  /\ pc = "sleep" => PendingResize = {}
  /\ Next
  /\ NoError'

\* the counters of this specification are kept over a window of MaxCycles
\* iterations: the for loop of main.go:130 has no bound
NextWindow ==
  /\ pc = "idle"
  /\ cycle = MaxCycles
  /\ cycle' = 0
  /\ nodeTotals' = [l \in Labels |-> 0]
  /\ UNCHANGED <<pc, nodePoolFromMinNode, nodesFromLen, zoneInfoLen, status, sleepBase,
                 waitGroup, maxTo, maxFrom, calls, verify, panic, decision, outcome,
                 refetchErr, fromCoupled, fetchErr, mainPc, cluster, call, refetchedMax>>

NextConverge ==
  \/ LoopStepConverge
  \/ CloudApplies
  \/ NextWindow

\* the goroutine keeps running and the platform finishes what it was asked
SpecConverge == InitConverge /\ [][NextConverge]_vars /\ WF_vars(NextConverge)

\* ---- the properties ----

\* a resize of the source pool has been issued in this iteration
ShrinkIssued == \E i \in 1..Len(calls) : calls[i].pool = "from"

\* the resize of the target pool was issued in this iteration and returned an error
GrowFailed == \E i \in 1..Len(calls) : calls[i].pool = "to" /\ calls[i].err

\* the verification of this iteration found expectedNodeCount < actualNodeCount
VerificationReportedFailure ==
  verify # <<>> /\ verify[1].expected < verify[1].actual

\* C1: when the verification step finds expectedNodeCount < actualNodeCount,
\* shiftNode does not go on to the shrink step and no SetNodePoolSize call on
\* the source pool is issued in that invocation.
C1_NoShrinkAfterFailedVerification ==
  VerificationReportedFailure => (pc # "shrink" /\ ~ShrinkIssued)

C1_Witness ==
  VerificationReportedFailure /\ pc = "sleep" /\ Len(calls) = 1

C3_VerifyFetchErrorStopsShift ==
  (verify # <<>> /\ verify[1].err) =>
     (pc # "shrink" /\ ~ShrinkIssued /\ (pc = "sleep" => outcome = "failed"))

\* C4 (as claimed): the shrink resize is never issued while the node count the
\* verification observed for the target pool is below toNewSize x numberOfZones.
C4_NoShrinkBeforeGrowthLanded ==
  (pc = "shrink" \/ ShrinkIssued) =>
     (verify # <<>> /\ verify[1].actual >= verify[1].expected)

\* the decision of this iteration has been evaluated and its inputs are still held
DecisionEvaluated ==
  decision # "none" /\ nodesFromLen >= 0 /\ zoneInfoLen > 0

\* the iteration went on to the shift
ShiftAttempted ==
  decision = "true" /\ status = "shifted" /\ waitGroup = 1
  /\ pc \in {"refetchTo", "refetchFrom", "crashed"}

\* the iteration was counted skipped and issued no resize call
CycleSkipped ==
  decision = "false" /\ pc = "sleep" /\ outcome = "skipped" /\ calls = <<>>
  /\ waitGroup = 0

\* C5 (as claimed): a cycle attempts a shift exactly when sourceNodeCount div
\* zoneCount is strictly greater than minNodesPerZone, and is skipped with no
\* resize call otherwise.
C5_DecisionIsThresholdOnly ==
  DecisionEvaluated =>
     IF nodesFromLen \div zoneInfoLen > nodePoolFromMinNode
     THEN ShiftAttempted
     ELSE CycleSkipped

\* C5 (amended): a cycle that evaluates the decision attempts a shift exactly
\* when sourceNodeCount div zoneCount is strictly greater than minNodesPerZone
\* and sourceNodeCount is greater than zero; otherwise it is counted skipped
\* and issues no resize call.
C5_DecisionIsThresholdAndNonEmpty ==
  DecisionEvaluated =>
     IF nodesFromLen \div zoneInfoLen > nodePoolFromMinNode /\ nodesFromLen > 0
     THEN ShiftAttempted
     ELSE CycleSkipped

C5_Witness ==
  /\ DecisionEvaluated /\ CycleSkipped
  /\ nodesFromLen > 0
  /\ nodesFromLen \div zoneInfoLen = nodePoolFromMinNode

\* C6 (as claimed): when the source pool has zero nodes, for every zone
\* distribution of the target pool the cycle issues no resize call and ends
\* with the outcome skipped.
C6_EmptySourceIsSkipped ==
  (nodesFromLen = 0 /\ zoneInfoLen >= 0) =>
     (pc = "sleep" /\ outcome = "skipped" /\ calls = <<>> /\ panic = "none")

\* C7 (as claimed): the size requested by a shrink resize is never below
\* minNodesPerZone.
C7_ShrinkNeverBelowFloor ==
  \A i \in 1..Len(calls) :
     calls[i].pool = "from" => calls[i].size >= nodePoolFromMinNode

\* C7 (amended): when the re-fetched source distribution has as many zones as
\* the target distribution the decision divided by, and sums to the source
\* node count the decision used, the size requested by the shrink resize is
\* not below minNodesPerZone.
C7_ShrinkNotBelowFloorWhenCoupled ==
  fromCoupled =>
     \A i \in 1..Len(calls) :
        calls[i].pool = "from" => calls[i].size >= nodePoolFromMinNode

C7_Witness ==
  /\ fromCoupled /\ ShrinkIssued
  /\ \E i \in 1..Len(calls) :
        calls[i].pool = "from" /\ calls[i].size = nodePoolFromMinNode

\* sum of the counter over its labels
Total == nodeTotals["shifted"] + nodeTotals["skipped"] + nodeTotals["failed"]

\* C8: an iteration that reaches its sleep increments the counter exactly once,
\* with exactly one label; nothing else changes the counter, so it never
\* decreases and the total at each sleep equals the number of iterations.
C8_CounterOncePerCycle ==
  /\ [](pc = "sleep" => (Total = cycle /\ outcome \in Labels))
  /\ [][IF pc # "sleep" /\ pc' = "sleep"
        THEN \E l \in Labels :
                /\ nodeTotals' = [nodeTotals EXCEPT ![l] = @ + 1]
                /\ outcome' = l
        ELSE nodeTotals' = nodeTotals]_vars

C8_Witness ==
  /\ pc = "sleep" /\ cycle = 2
  /\ nodeTotals["shifted"] = 1 /\ nodeTotals["failed"] = 1

\* C9 (as claimed): the label shifted is emitted only for cycles in which both
\* the grow and the shrink resize were issued and returned without error; a
\* cycle whose verification failed is never counted shifted.
C9_ShiftedOnlyAfterBothResizes ==
  (pc = "sleep" /\ outcome = "shifted") =>
     /\ ~VerificationReportedFailure
     /\ Len(calls) = 2
     /\ calls[1] = [pool |-> "to", size |-> ToNewSize(maxTo), err |-> FALSE]
     /\ calls[2] = [pool |-> "from", size |-> FromNewSize(maxFrom), err |-> FALSE]

\* C10 (as claimed): when a re-fetch of a zone distribution on entering the
\* shift returns an error, the process does not crash, the shift is not
\* carried on with, and the cycle is counted failed.
C10_RefetchErrorFailsCycle ==
  refetchErr # {} =>
     (panic = "none" /\ calls = <<>> /\ (pc = "sleep" => outcome = "failed"))

\* C11 (as claimed): for every content of the two pools, an empty target
\* distribution included, the loop never reaches a crashed state: no runtime
\* panic ends the process.
C11_LoopNeverCrashes ==
  pc # "crashed"

\* C12: when the fetch of the source pool's node list (main.go:136) or of the
\* target pool's zone distribution (main.go:151) returns an error, the cycle
\* increments failed exactly once, issues no resize call, leaves the wait
\* group alone, holds a sleep time derived from the interval flag, and its
\* next step is back at the top of the loop.
C12_IdleFetchErrorFailsCycle ==
  /\ [](fetchErr # "none" =>
          /\ pc = "sleep" /\ outcome = "failed" /\ panic = "none"
          /\ calls = <<>> /\ waitGroup = 0 /\ sleepBase = "interval"
          /\ Total = cycle)
  /\ [][(fetchErr = "none" /\ fetchErr' # "none") =>
          /\ nodeTotals' = [nodeTotals EXCEPT !["failed"] = @ + 1]
          /\ waitGroup' = waitGroup
          /\ calls' = calls]_vars
  /\ [][(fetchErr # "none" /\ pc' # pc) =>
          /\ pc' = "idle"
          /\ nodeTotals' = nodeTotals
          /\ waitGroup' = waitGroup]_vars

C12_Witness ==
  fetchErr = "zones" /\ pc = "sleep" /\ nodeTotals["failed"] = 2

\* C13 (as claimed): once the shutdown signal has been delivered, the process
\* never exits between a grow resize and the end of the same shift, whether
\* the shift was in flight at the signal or started after it.
C13_NoExitInsideShift ==
  mainPc = "exited" => pc \notin {"verify", "shrink"}

\* C14 (as claimed): for every positive base value v, ApplyJitter(v) returns
\* normally with a result r such that 3v <= 4r < 5v.
C14_JitterReturnsInRange ==
  (call.op = "ApplyJitter" /\ call.done) =>
     /\ ~call.panicked
     /\ 3 * call.input <= 4 * call.output
     /\ 4 * call.output < 5 * call.input

\* C15 (as claimed): on an unchanged set of nodes, each carrying or lacking a
\* zone label, the sequence GetZones returns sums to the number of nodes the
\* listing without a zone filter returns, and its length is the number of
\* distinct zones observed for the pool.
C15_ZonesSumToNodeCount ==
  (call.op = "GetZones" /\ call.done /\ ~call.err) =>
     /\ Sum(call.zones) = call.listLen
     /\ Len(call.zones) = Cardinality(determineZones(call.pool))

\* C20: for every non-empty sequence a, FindMinAndMax(a) returns (m, M) where
\* m is an element of a that no element is below and M is an element of a
\* that no element is above; for a single element x it returns (x, x).
C20_FindMinAndMaxCorrect ==
  (call.op = "FindMinAndMax" /\ call.done) =>
     /\ \E i \in 1..Len(call.a) : call.a[i] = call.min
     /\ \E i \in 1..Len(call.a) : call.a[i] = call.max
     /\ \A i \in 1..Len(call.a) : call.min <= call.a[i] /\ call.a[i] <= call.max
     /\ (Len(call.a) = 1 => (call.min = call.a[1] /\ call.max = call.a[1]))

C20_Witness ==
  /\ call.op = "FindMinAndMax" /\ call.done
  /\ Len(call.a) = 3 /\ call.a[2] < call.a[3] /\ call.a[3] < call.a[1]
  /\ call.min = call.a[2] /\ call.max = call.a[1]

\* every SetNodePoolSize call issued in this iteration returned without error
AllCallsSucceeded == \A i \in 1..Len(calls) : ~calls[i].err

\* C16: a cycle issues at most one grow and at most one shrink, the grow
\* first and the shrink only after a grow that succeeded; and a cycle whose
\* decision is true, whose resize calls all succeed and whose verification
\* passes has issued exactly two calls: the target pool to the largest
\* per-zone count of the re-fetched target distribution plus one, then the
\* source pool to the largest per-zone count of the re-fetched source
\* distribution minus one.
C16_OneGrowThenOneShrink ==
  /\ Len(calls) <= 2
  /\ (Len(calls) >= 1 => calls[1].pool = "to")
  /\ (Len(calls) = 2 => (calls[2].pool = "from" /\ ~calls[1].err))
  /\ (/\ pc = "sleep" /\ decision = "true"
      /\ AllCallsSucceeded
      /\ verify # <<>> /\ ~VerificationReportedFailure)
     => calls = << [pool |-> "to", size |-> refetchedMax["to"] + 1, err |-> FALSE],
                   [pool |-> "from", size |-> refetchedMax["from"] - 1, err |-> FALSE] >>

C16_Witness ==
  /\ pc = "sleep" /\ outcome = "shifted" /\ Len(calls) = 2
  /\ refetchedMax["to"] = 1 /\ calls[1].size = 2
  /\ refetchedMax["from"] = 2 /\ calls[2].size = 1

\* the shrink resize call of this iteration returned an error
ShrinkFailed == \E i \in 1..Len(calls) : calls[i].pool = "from" /\ calls[i].err

ShiftExecutorInvoked == calls # <<>>

\* C18: at the sleep that ends a cycle, sleepTime comes from cycleTime exactly
\* when the cycle called shiftNode, whatever it returned, and from interval
\* otherwise; and sleepTime is derived from interval by no step other than
\* the first one of an iteration.
C18_SleepBaseFollowsShift ==
  /\ [](pc = "sleep" =>
          /\ sleepBase \in {"interval", "cycleTime"}
          /\ (sleepBase = "cycleTime") <=> ShiftExecutorInvoked
          /\ outcome \in {"shifted", "failed"} /\ ShiftExecutorInvoked
               => sleepBase = "cycleTime")
  /\ [][(sleepBase' = "interval" /\ sleepBase # "interval") => pc = "idle"]_vars

C18_Witness ==
  /\ pc = "sleep" /\ ShiftExecutorInvoked
  /\ outcome = "failed" /\ sleepBase = "cycleTime"
  /\ calls[1].err

\* main.go:167 on the cluster's content: the nodes of the source pool divided
\* by the number of zones of the target pool
SourcePerZoneSize ==
  LET f == cluster[1]["from"]
      t == cluster[1]["to"]
  IN (f["a"] + f["b"] + f[NoZone]) \div Cardinality(determineZones(t))

\* the source pool is at the floor, no resize call is outstanding or recorded,
\* and no iteration ends other than 'skipped'
SettledAtFloor ==
  /\ SourcePerZoneSize = nodePoolFromMinNode
  /\ calls = <<>>
  /\ pc \in {"idle", "getZones", "sleep"}
  /\ outcome \in {"none", "skipped"}

====
